---- MODULE Spec2Model ----
(***************************************************************************)
(* Model of the theme-driven canvas animation component ThemeEasterEggs    *)
(* (src/unnamed/part_004): its useEffect setup/cleanup, the theme router   *)
(* (initializeEffect / animate), the resize handler, the host's frame      *)
(* clock (requestAnimationFrame / cancelAnimationFrame) and the record     *)
(* collections of the 18 simulations.                                      *)
(*                                                                         *)
(* One effect run creates one closure: its captured theme and mode and its *)
(* own `particles`, `dots`, `ghosts` and `variators` arrays.  A render     *)
(* with changed dependencies [enabled, theme, mode] is one step: React     *)
(* runs the previous effect's cleanup and then the new effect before the   *)
(* next frame callback.  JavaScript is run-to-completion, so each handler  *)
(* is one atomic action.                                                   *)
(*                                                                         *)
(* Spec is the controller with the record counts of every collection;     *)
(* SpecSim follows the position of one record of a running simulation.    *)
(***************************************************************************)
EXTENDS Integers, Sequences, FiniteSets, TLC

\* ------------------------------------------------------------------------
\* Bounds of the model
\* ------------------------------------------------------------------------

\* Frames advanced on one state before the frame clock is cut (the code
\* runs without end).
MaxAge == 3

\* Re-initializations a nexus closure may pile up in `dots` and `ghosts`
\* before the model takes no further resize.
MaxStale == 2

\* ------------------------------------------------------------------------
\* Inputs
\* ------------------------------------------------------------------------

Registered ==
  { "default", "cyber-noir", "verdant", "earthy", "syntax", "nexus",
    "luxury", "sterling", "vogue", "velocity", "comic", "vitality",
    "ember", "minimalist", "soft-pastel", "summit", "valor", "prism" }

\* A theme string the router has no case for.
UnknownTheme == "not-a-theme"

ThemeKeys == Registered \cup {UnknownTheme}

Modes == {"light", "dark"}

\* window.innerWidth x window.innerHeight
WindowSizes == { [w |-> 800, h |-> 600], [w |-> 1600, h |-> 1200] }

\* A canvas element as created by the browser, before the effect sizes it.
DefaultCanvas == [w |-> 300, h |-> 150]

\* No canvas element is rendered.
NoCanvas == [w |-> 0, h |-> 0]

\* Outcomes of Math.random(): 0 stands for the low end of every range drawn
\* with it, 1 for the high end.
Seeds == {0, 1}

\* ------------------------------------------------------------------------
\* Record collections
\* ------------------------------------------------------------------------

\* A collection of records: how many, the themes whose init pushed them and
\* the canvas sizes their positions were drawn from.
EmptyColl == [n |-> 0, made |-> {}, at |-> {}]

\* array.push of k records by theme t's init at canvas size sz
Push(c, k, t, sz) ==
  IF k = 0 THEN c
  ELSE [n |-> c.n + k, made |-> c.made \cup {t}, at |-> c.at \cup {sz}]

\* Number of iterations of `for (x = from; x < to; x += step)`, in units in
\* which from, to and step are integers.
RECURSIVE LoopCount(_, _, _)
LoopCount(from, to, step) ==
  IF from < to THEN 1 + LoopCount(from + step, to, step) ELSE 0

\* initCyberNoir: columns = Math.floor(canvas.width / 16)
CyberNoirColumns(sz) == sz.w \div 16

\* initNexus: the dot grid; offsets are (size % 40) / 2, so the loop is
\* counted in half pixels.
DotAxis(n) == LoopCount((n % 40) + 80, 2 * n - 80, 80)

DotCount(sz) == DotAxis(sz.w) * DotAxis(sz.h)

\* initSterling: `for (x = 0; x < n; x += n / 22)` in IEEE-754 doubles: the
\* 22 additions of n/22 end just below n for some n, giving a 23rd
\* iteration.  The values are those of the loop for the modelled sizes.
SterlingAxis(n) ==
  CASE n = 800 -> 22
    [] n = 1600 -> 22
    [] n = 600 -> 23
    [] n = 1200 -> 23
    [] n = 300 -> 23
    [] n = 150 -> 23
    [] OTHER -> 22

SterlingCount(sz) == SterlingAxis(sz.w) * SterlingAxis(sz.h)

\* initializeEffect with a default branch that builds aurora's five waves for
\* a theme it does not know (a mutation for C4).
ParticleCountDefaultsToAurora(t, sz) ==
  CASE t = "default" -> 5
    [] t = "cyber-noir" -> CyberNoirColumns(sz)
    [] t = "verdant" -> 50
    [] t = "earthy" -> 40
    [] t = "syntax" -> 60 * 40
    [] t = "luxury" -> 50
    [] t = "sterling" -> SterlingCount(sz)
    [] t = "vogue" -> 9
    [] t = "velocity" -> 20
    [] t = "comic" -> 30
    [] t = "vitality" -> 4
    [] t = "ember" -> 150
    [] t = "soft-pastel" -> 15
    [] t = "summit" -> 40 + 30 + 50
    [] t = "valor" -> 3
    [] t = "prism" -> 25
    [] OTHER -> 5

\* The number of records each init pushes onto `particles`.
ParticleCount(t, sz) ==
  CASE t = "default" -> 5
    [] t = "cyber-noir" -> CyberNoirColumns(sz)
    [] t = "verdant" -> 50
    [] t = "earthy" -> 40
    [] t = "syntax" -> 60 * 40
    [] t = "luxury" -> 50
    [] t = "sterling" -> SterlingCount(sz)
    [] t = "vogue" -> 9
    [] t = "velocity" -> 20
    [] t = "comic" -> 30
    [] t = "vitality" -> 4
    [] t = "ember" -> 150
    [] t = "soft-pastel" -> 15
    [] t = "summit" -> 40 + 30 + 50
    [] t = "valor" -> 3
    [] t = "prism" -> 25
    [] OTHER -> 0

\* An initAurora whose layers are 200 pixels apart (a mutation for C16).
InitAuroraSpreadsLayers(sz) ==
  [i \in 1..5 |-> (4 * sz.h) \div 10 + 200 * (i - 1)]

\* initAurora: the baseY of the five waves it pushes, in pixels:
\* canvas.height * 0.4 + i * 20 for i = 0..4.
InitAurora(sz) ==
  [i \in 1..5 |-> (4 * sz.h) \div 10 + 20 * (i - 1)]

\* ------------------------------------------------------------------------
\* Valor ripples (the only records removed and added by a frame).  Lengths
\* are in 1/1000 px, opacity in 1/1000.
\* ------------------------------------------------------------------------

\* The ripple pushed by initValor (delay i * 30) and by animateValor's random
\* impact (delay 0); sm and ss pick the end of the two random ranges.
RippleOf(sm, ss, d) ==
  [ delay |-> d, radius |-> 0,
    maxRadius |-> 120000 + sm * 80000,
    speed |-> 2000 + ss * 1500,
    opacity |-> 800 ]

\* The same with one draw for both.
Ripple(s, d) == RippleOf(s, s, d)

\* animateValor's filter callback: the record after the callback ...
StepRippleFadesSlowly(p) ==
  IF p.delay > 0 THEN [p EXCEPT !.delay = @ - 1]
  ELSE IF p.opacity <= 0 THEN p
  ELSE LET r == p.radius + p.speed
       IN  [p EXCEPT !.radius = r,
                     !.opacity = @ - 6,
                     !.speed = IF 2 * r > p.maxRadius
                               THEN (@ * 102) \div 100 ELSE @]

StepRipple(p) ==
  IF p.delay > 0 THEN [p EXCEPT !.delay = @ - 1]
  ELSE IF p.opacity <= 0 THEN p
  ELSE LET r == p.radius + p.speed
       IN  [p EXCEPT !.radius = r,
                     !.opacity = @ - 12,
                     !.speed = IF 2 * r > p.maxRadius
                               THEN (@ * 102) \div 100 ELSE @]

\* ... and the callback's return value.
KeepRipple(p) ==
  IF p.delay > 0 THEN TRUE
  ELSE IF p.opacity <= 0 THEN FALSE
  ELSE LET q == StepRipple(p)
       IN  q.radius < q.maxRadius /\ q.opacity > 0

\* particles.filter(callback): the records the callback keeps, as it left
\* them.
FilterRipples(rs) ==
  LET kept == SelectSeq(rs, KeepRipple)
  IN  [i \in 1..Len(kept) |-> StepRipple(kept[i])]

\* ------------------------------------------------------------------------
\* One effect closure
\* ------------------------------------------------------------------------

\* The variables one run of the effect declares: the captured props, the
\* shared `particles` array (valor's ripples carry their fields in
\* `ripples`), nexus's `dots` and `ghosts`, zen's `variators`.  `age` counts
\* the frames advanced since the last initializeEffect and `seed` names its
\* random draws: together they stand for the motion values (positions,
\* phases) of the records.  `initN` is the number of records the closure
\* held when its last initializeEffect returned, and `via` the dependency
\* whose change ran the effect ("mount" for the first run).
NewClosure(t, m, via) ==
  [ theme |-> t, mode |-> m,
    particles |-> EmptyColl, ripples |-> <<>>,
    dots |-> EmptyColl, ghosts |-> EmptyColl, variators |-> EmptyColl,
    waves |-> << >>, age |-> 0, seed |-> 0, initN |-> 0, via |-> via ]

\* zen: maxLines
MaxLines == 40

\* An initComic that pushes one dot per palette entry and index, with a dark
\* palette twice as long as the light one (a mutation for C13).
InitThemeCountsByPalette(cl, sz, s) ==
  LET t == cl.theme
      base == [cl EXCEPT !.particles = EmptyColl, !.ripples = <<>>,
                         !.age = 0, !.seed = s]
      k == IF t = "comic" /\ cl.mode = "dark" THEN 2 ELSE 1
  IN  CASE t = "nexus" ->
             [base EXCEPT !.dots = Push(cl.dots, DotCount(sz), t, sz),
                          !.ghosts = Push(cl.ghosts, 3, t, sz)]
        [] t = "minimalist" ->
             [base EXCEPT !.variators = Push(EmptyColl, MaxLines, t, sz)]
        [] t = "valor" ->
             [base EXCEPT !.particles = Push(EmptyColl, ParticleCount(t, sz), t, sz),
                          !.ripples = <<Ripple(s, 0), Ripple(s, 30), Ripple(s, 60)>>]
        [] t = "default" ->
             [base EXCEPT !.particles = Push(EmptyColl, ParticleCount(t, sz), t, sz),
                          !.waves = InitAurora(sz)]
        [] OTHER ->
             [base EXCEPT !.particles =
                            Push(EmptyColl, k * ParticleCount(t, sz), t, sz)]

\* initializeEffect: `particles = []`, then the theme's init.  initNexus
\* pushes onto `dots` and `ghosts` without emptying them; initZen assigns
\* `variators = []` first.
InitTheme(cl, sz, s) ==
  LET t == cl.theme
      base == [cl EXCEPT !.particles = EmptyColl, !.ripples = <<>>,
                         !.age = 0, !.seed = s]
  IN  CASE t = "nexus" ->
             [base EXCEPT !.dots = Push(cl.dots, DotCount(sz), t, sz),
                          !.ghosts = Push(cl.ghosts, 3, t, sz)]
        [] t = "minimalist" ->
             [base EXCEPT !.variators = Push(EmptyColl, MaxLines, t, sz)]
        [] t = "valor" ->
             [base EXCEPT !.particles = Push(EmptyColl, ParticleCount(t, sz), t, sz),
                          !.ripples = <<Ripple(s, 0), Ripple(s, 30), Ripple(s, 60)>>]
        [] t = "default" ->
             [base EXCEPT !.particles = Push(EmptyColl, ParticleCount(t, sz), t, sz),
                          !.waves = InitAurora(sz)]
        [] OTHER ->
             [base EXCEPT !.particles = Push(EmptyColl, ParticleCount(t, sz), t, sz)]

\* All records of a closure.
RecordCount(cl) == cl.particles.n + cl.dots.n + cl.ghosts.n + cl.variators.n

\* initializeEffect, with the count of the records it leaves.
InitializeEffect(cl, sz, s) ==
  LET c == InitTheme(cl, sz, s)
  IN  [c EXCEPT !.initN = RecordCount(c)]

\* The themes whose init built the records of a closure.
MadeFor(cl) ==
  cl.particles.made \cup cl.dots.made \cup cl.ghosts.made \cup cl.variators.made

\* The canvas sizes the positions of a closure's records were drawn from.
DrawnAt(cl) == cl.particles.at \cup cl.dots.at \cup cl.ghosts.at

\* The theme's animate routine on the closure's records, r.spawn and r.s being
\* the frame's random outcomes.  animateValor pushes a ripple on a random
\* impact and filters the list; animateZen's loop `i <= maxLines` writes
\* variators[maxLines]; every other routine moves its records in place.
AdvanceState(cl, sz, r) ==
  LET t == cl.theme
      aged == [cl EXCEPT !.age = @ + 1]
  IN  CASE t = "valor" ->
             LET rs == FilterRipples(IF r.spawn
                                     THEN Append(cl.ripples, Ripple(r.s, 0))
                                     ELSE cl.ripples)
             IN  [aged EXCEPT
                    !.ripples = rs,
                    !.particles =
                       IF rs = <<>> THEN EmptyColl
                       ELSE [n |-> Len(rs), made |-> {t},
                             at |-> IF r.spawn THEN @.at \cup {sz} ELSE @.at]]
        [] t = "minimalist" ->
             [aged EXCEPT !.variators.n = IF @ < MaxLines + 1
                                          THEN MaxLines + 1 ELSE @]
        [] OTHER -> aged

\* What one call of animate did: the routine the switch ran ("none" when no
\* case matched), the palette it painted with, the records it read and
\* whether it raised.
NoFrame ==
  [routine |-> "none", mode |-> "none", n |-> 0, made |-> {}, threw |-> FALSE]

\* animate: the switch on the closure's theme.  `fail` is a drawing error
\* raised inside the theme's routine; the switch has no default case, so a
\* theme without a case runs nothing.  Returns the closure after the call
\* and what the call did; the caller re-requests the frame unless it raised.
Animate(cl, sz, r, fail) ==
  IF cl.theme \notin Registered
  THEN [cl |-> cl, frame |-> NoFrame]
  ELSE [ cl |-> IF fail THEN cl ELSE AdvanceState(cl, sz, r),
         frame |-> [routine |-> cl.theme, mode |-> cl.mode,
                    n |-> RecordCount(cl), made |-> MadeFor(cl),
                    threw |-> fail] ]

\* ------------------------------------------------------------------------
\* State
\* ------------------------------------------------------------------------

VARIABLES
  mounted,    \* "no", "yes", or "torn": React removed the tree after an error
  enabled,    \* prop
  theme,      \* prop
  mode,       \* prop
  ctxAvail,   \* canvas.getContext('2d') returns a context
  win,        \* window.innerWidth / innerHeight
  canvas,     \* canvas.width / canvas.height
  closures,   \* effect closures still referenced, by instance number
  pending,    \* frame callbacks requested and not yet run or cancelled
  rafRef,     \* animationFrameRef.current (0: undefined)
  listeners,  \* closures whose handleResize / handleMouseMove are registered
  cleanup,    \* the closure whose cleanup function React holds (0: none)
  lastFrame,  \* what the most recent call of animate since the last render did
  uncaught,   \* an exception left a callback of the component since the last render
  sim,        \* one record of a running simulation, followed frame by frame
  svc,        \* the last call of createUser: its input and its outcome
  tog,        \* a component using useToggle
  ls,         \* a component using useLocalStorage, and window.localStorage
  req,        \* the request the authenticated worker is answering
  sess,       \* the SESSIONS namespace behind a SessionManager, and the clock
  rain,       \* a MatrixRain component
  edge,       \* the Config example worker: its CACHE namespace and its request
  valor,      \* the ripples of one running valor simulation
  kv          \* a mock KV namespace and the result of the last call on it

\* The controller's variables.
ctlVars ==
  << mounted, enabled, theme, mode, ctxAvail, win, canvas, closures, pending,
     rafRef, listeners, cleanup, lastFrame, uncaught >>

\* The variables of the service and hook examples (src/unnamed/part_015).
libVars == << svc, tog, ls >>

\* The variables of the worker examples (src/unnamed/part_017), of MatrixRain
\* and the valor ripples (src/unnamed/part_004) and of the KV mock.
appVars == << req, sess, rain, edge, valor, kv >>

vars == << ctlVars, sim, libVars, appVars >>

\* No record is followed.
NoSim == [theme |-> "none"]

\* createUser has not been called.
NoCall == [op |-> "none"]

\* No component using the hook is rendered.
NoHook == [mounted |-> FALSE]

\* The localStorage keys the hooks are mounted with.
StorageKeys == {"test-key", "user-key"}

\* A key localStorage has no entry for, and an entry.
Absent == [present |-> FALSE, item |-> << >>]
Entry(item) == [present |-> TRUE, item |-> item]

\* No component using useLocalStorage is rendered and localStorage is empty.
NoStorage == [mounted |-> FALSE, store |-> [k \in StorageKeys |-> Absent]]

\* The session ids callers pass: the ids crypto.randomUUID() hands to
\* createSession, and "sid-0", which it never returns.
SessionIds == {"sid-0", "sid-1", "sid-2", "sid-3"}

\* The SESSIONS namespace is empty and the clock (in hours) at 0.  created and
\* revoked record the calls made so far, last the most recent call.
NoSessions ==
  [ store |-> [k \in {<<"session:", id>> : id \in SessionIds} |->
                 [present |-> FALSE, item |-> << >>, expires |-> 0]],
    now |-> 0, created |-> {}, revoked |-> {}, last |-> NoCall ]

\* The pathnames requested from the Config example worker.
EdgePaths == {"/users", "/posts"}

\* The isolates answering requests at the same time.
EdgeSlots == {1, 2}

\* The KV namespace is empty, the clock (in hours) at 0, the users table in
\* its first state and no request in flight.  stored records the body last
\* put for each pathname.
NoEdge ==
  [ store |-> [k \in {<<"cache:">>} \cup {<<"cache:", q>> : q \in EdgePaths}
                 |-> [present |-> FALSE, item |-> << >>, expires |-> 0]],
    now |-> 0, db |-> 0,
    stored |-> [q \in EdgePaths |-> << >>],
    reqs |-> [i \in EdgeSlots |-> [pc |-> "idle"]] ]

\* createMockKV(): the Map is empty (its entries are kept in insertion
\* order); puts records the value last put under each key and not deleted
\* since, last the most recent call.
EmptyKV == [storage |-> << >>, puts |-> {}, last |-> NoCall]

\* The part of the state the effect and its cleanup work on.
Ctl ==
  [ mounted |-> mounted, canvas |-> canvas, closures |-> closures,
    pending |-> pending, rafRef |-> rafRef, listeners |-> listeners,
    cleanup |-> cleanup, lastFrame |-> lastFrame, uncaught |-> uncaught ]

\* The smallest positive number not in use.
FreshId(used) == CHOOSE i \in 1..(Cardinality(used) + 1) : i \notin used

FrameIds(pend) == {f.id : f \in pend}

\* A cleanup that cancels the id of the frame before the pending one (a
\* mutation for C5).
CancelFrameBefore(pend, id) == {f \in pend : f.id # id - 1}

\* cancelAnimationFrame(id)
CancelFrame(pend, id) == {f \in pend : f.id # id}

\* A cleanup that removes the listeners and forgets the frame (a mutation for
\* C7).
RunCleanupKeepsFrame(st) ==
  IF st.cleanup = 0 THEN st
  ELSE [st EXCEPT !.listeners = @ \ {st.cleanup}, !.cleanup = 0]

\* The effect's cleanup function: both listeners are removed and the frame
\* named by animationFrameRef.current is cancelled (`if (ref.current)`).
\* React calls it only for an effect run that returned it.
RunCleanup(st) ==
  IF st.cleanup = 0 THEN st
  ELSE [st EXCEPT !.listeners = @ \ {st.cleanup},
                  !.pending = IF st.rafRef # 0 THEN CancelFrame(@, st.rafRef)
                              ELSE @,
                  !.cleanup = 0]

\* An effect body without the `if (!ctx) return` guard (a mutation for C12).
RunEffectWithoutContextGuard(st, e, t, m, via, s, r, fail) ==
  IF ~e THEN st
  ELSE
    LET k == FreshId(DOMAIN st.closures)
        c0 == InitializeEffect(NewClosure(t, m, via), win, s)
        a == Animate(c0, win, r, fail)
        reg == [st EXCEPT !.canvas = win,
                          !.listeners = @ \cup {k},
                          !.lastFrame = a.frame]
    IN  IF a.frame.threw
        THEN [reg EXCEPT !.closures = (k :> c0) @@ @,
                         !.uncaught = TRUE,
                         !.mounted = "torn"]
        ELSE LET id == FreshId(FrameIds(st.pending))
             IN  [reg EXCEPT !.closures = (k :> a.cl) @@ @,
                             !.pending = @ \cup {[id |-> id, cl |-> k]},
                             !.rafRef = id,
                             !.cleanup = k]

\* The effect body for props (e, t, m): the guards, the canvas sized to the
\* window, a new closure, both listeners, initializeEffect() and the first
\* animate().  An exception in that first call leaves the effect before it
\* returns its cleanup: the listeners stay and React removes the tree.
RunEffect(st, e, t, m, via, s, r, fail) ==
  IF ~e \/ ~ctxAvail THEN st
  ELSE
    LET k == FreshId(DOMAIN st.closures)
        c0 == InitializeEffect(NewClosure(t, m, via), win, s)
        a == Animate(c0, win, r, fail)
        reg == [st EXCEPT !.canvas = win,
                          !.listeners = @ \cup {k},
                          !.lastFrame = a.frame]
    IN  IF a.frame.threw
        THEN [reg EXCEPT !.closures = (k :> c0) @@ @,
                         !.uncaught = TRUE,
                         !.mounted = "torn"]
        ELSE LET id == FreshId(FrameIds(st.pending))
             IN  [reg EXCEPT !.closures = (k :> a.cl) @@ @,
                             !.pending = @ \cup {[id |-> id, cl |-> k]},
                             !.rafRef = id,
                             !.cleanup = k]

\* Closures nothing refers to any more are dropped.
Collect(st) ==
  LET live == (st.listeners \cup {f.cl : f \in st.pending} \cup {st.cleanup})
              \cap DOMAIN st.closures
  IN  [st EXCEPT !.closures = [c \in live |-> st.closures[c]]]

\* One render of the component with props (e, t, m) and its effects: the
\* canvas element exists while the component renders it (enabled), the
\* previous effect is cleaned up, the effect runs.
Commit(e, t, m, s, r, fail) ==
  LET st1 == Collect(RunCleanup([Ctl EXCEPT !.mounted = "yes"]))
      st2 == [st1 EXCEPT !.canvas = IF ~e THEN NoCanvas
                                    ELSE IF mounted = "yes" /\ enabled THEN @
                                    ELSE DefaultCanvas,
                         !.lastFrame = NoFrame,
                         !.uncaught = FALSE]
      via == CASE mounted # "yes" -> "mount"
               [] t # theme -> "theme"
               [] m # mode -> "mode"
               [] OTHER -> "enabled"
  IN  \E st \in {Collect(RunEffect(st2, e, t, m, via, s, r, fail))} :
      /\ enabled' = e
      /\ theme' = t
      /\ mode' = m
      /\ mounted' = st.mounted
      /\ canvas' = st.canvas
      /\ closures' = st.closures
      /\ pending' = st.pending
      /\ rafRef' = st.rafRef
      /\ listeners' = st.listeners
      /\ cleanup' = st.cleanup
      /\ lastFrame' = st.lastFrame
      /\ uncaught' = st.uncaught
      /\ UNCHANGED <<ctxAvail, win, sim, libVars, appVars>>

\* The random outcomes one call of theme t's animate routine depends on:
\* only animateValor branches on Math.random() to change the record list.
NoRandom == [spawn |-> FALSE, s |-> 0]

RandomsFor(t) ==
  IF t = "valor" THEN {NoRandom} \cup [spawn : {TRUE}, s : Seeds]
  ELSE {NoRandom}

\* The inputs of one effect run with props (e, t): the random draws of the
\* init, those of the first frame, and whether the first frame's drawing
\* raises.  None is read when the effect returns at its guards, and none
\* but the props when the router has no case for t.
Inputs(e, t) ==
  IF e /\ ctxAvail /\ t \in Registered
  THEN [s : Seeds, r : RandomsFor(t), fail : BOOLEAN]
  ELSE {[s |-> 0, r |-> NoRandom, fail |-> FALSE]}

Init ==
  /\ mounted = "no"
  /\ enabled = FALSE
  /\ theme = "default"
  /\ mode = "light"
  /\ ctxAvail \in BOOLEAN
  /\ win \in WindowSizes
  /\ canvas = NoCanvas
  /\ closures = << >>
  /\ pending = {}
  /\ rafRef = 0
  /\ listeners = {}
  /\ cleanup = 0
  /\ lastFrame = NoFrame
  /\ uncaught = FALSE
  /\ sim = NoSim
  /\ svc = NoCall
  /\ tog = NoHook
  /\ ls = NoStorage
  /\ req = NoCall
  /\ sess = NoSessions
  /\ rain = NoHook
  /\ edge = NoEdge
  /\ valor = NoCall
  /\ kv = EmptyKV

\* The component is mounted with its first props.
Mount ==
  /\ mounted = "no"
  /\ \E e \in BOOLEAN, t \in ThemeKeys, m \in Modes :
       \E i \in Inputs(e, t) : Commit(e, t, m, i.s, i.r, i.fail)

\* The `theme` prop changes.
SetTheme ==
  /\ mounted = "yes"
  /\ \E t \in ThemeKeys \ {theme} :
       \E i \in Inputs(enabled, t) : Commit(enabled, t, mode, i.s, i.r, i.fail)

\* The `mode` prop changes.
SetMode ==
  /\ mounted = "yes"
  /\ \E m \in Modes \ {mode} :
       \E i \in Inputs(enabled, theme) : Commit(enabled, theme, m, i.s, i.r, i.fail)

\* The `enabled` prop changes.
SetEnabled ==
  /\ mounted = "yes"
  /\ \E i \in Inputs(~enabled, theme) :
       Commit(~enabled, theme, mode, i.s, i.r, i.fail)

\* The component is unmounted: React runs the cleanup; the component's refs
\* and props go with it.
Unmount ==
  /\ mounted = "yes"
  /\ \E st \in {Collect(RunCleanup(Ctl))} :
         /\ mounted' = "no"
         /\ enabled' = FALSE
         /\ theme' = "default"
         /\ mode' = "light"
         /\ canvas' = NoCanvas
         /\ closures' = st.closures
         /\ pending' = st.pending
         /\ rafRef' = 0
         /\ listeners' = st.listeners
         /\ cleanup' = 0
         /\ lastFrame' = NoFrame
         /\ uncaught' = FALSE
         /\ UNCHANGED <<ctxAvail, win, sim, libVars, appVars>>

\* handleResize of one closure: the canvas takes the window's size and
\* initializeEffect() runs on the closure's arrays.  No frame is requested.
HandleResize(cl, sz, s) == InitializeEffect(cl, sz, s)

\* A resize handler that, after initializeEffect(), also calls animate() and
\* so requests a frame of its own (a mutation for C11).
ResizeRequestsFrame ==
  /\ \A c \in listeners : closures[c].ghosts.n <= 3 * MaxStale
  /\ \E sz \in WindowSizes, s \in Seeds :
       /\ win' = sz
       /\ canvas' = IF listeners # {} THEN sz ELSE canvas
       /\ closures' = [c \in DOMAIN closures |->
                         IF c \in listeners
                         THEN HandleResize(closures[c], sz, s)
                         ELSE closures[c]]
  /\ pending' = pending \cup
       {[id |-> FreshId(FrameIds(pending)), cl |-> c] : c \in listeners}
  /\ UNCHANGED << sim, libVars, appVars, mounted, enabled, theme, mode, ctxAvail, rafRef,
                  listeners, cleanup, lastFrame, uncaught >>

\* The browser sends a resize notification (the size being sz by then) and
\* calls every registered resize listener.
Resize ==
  /\ \A c \in listeners : closures[c].ghosts.n <= 3 * MaxStale
  /\ \E sz \in WindowSizes, s \in Seeds :
       /\ win' = sz
       /\ canvas' = IF listeners # {} THEN sz ELSE canvas
       /\ closures' = [c \in DOMAIN closures |->
                         IF c \in listeners
                         THEN HandleResize(closures[c], sz, s)
                         ELSE closures[c]]
  /\ UNCHANGED << sim, libVars, appVars, mounted, enabled, theme, mode, ctxAvail, pending, rafRef,
                  listeners, cleanup, lastFrame, uncaught >>

\* The frame clock runs a pending callback: animate() of its closure, which
\* requests the next frame as its last statement.
Frame ==
  \E f \in pending :
    \E r \in RandomsFor(closures[f.cl].theme),
       fail \in (IF closures[f.cl].theme \in Registered THEN BOOLEAN ELSE {FALSE}) :
    /\ closures[f.cl].age < MaxAge
    /\ \E a \in {Animate(closures[f.cl], canvas, r, fail)} :
         LET rest == pending \ {f}
             id == FreshId(FrameIds(rest))
         IN  /\ closures' = [closures EXCEPT ![f.cl] = a.cl]
             /\ lastFrame' = a.frame
             /\ uncaught' = (uncaught \/ a.frame.threw)
             /\ pending' = IF a.frame.threw THEN rest
                           ELSE rest \cup {[id |-> id, cl |-> f.cl]}
             /\ rafRef' = IF a.frame.threw THEN rafRef ELSE id
    /\ UNCHANGED << sim, libVars, appVars, mounted, enabled, theme, mode, ctxAvail, win, canvas,
                    listeners, cleanup >>

Next ==
  \/ Mount
  \/ SetTheme
  \/ SetMode
  \/ SetEnabled
  \/ Unmount
  \/ Resize
  \/ Frame

Spec == Init /\ [][Next]_vars

\* ------------------------------------------------------------------------
\* One record of a running simulation
\* ------------------------------------------------------------------------
\* The records of a simulation move independently of each other, so one
\* record is followed from the init that creates it through the frames and
\* resizes of one effect run.  Positions, lengths and speeds are in tenths of
\* a pixel; a Math.random() range is represented by its end points.  The
\* simulations followed are those whose positions change by additions and
\* comparisons alone.

MaxFall == 5       \* frames a rain column is followed below the bottom edge

SimThemes ==
  {"cyber-noir", "verdant", "velocity", "comic", "prism", "ember", "nexus"}

\* window.innerWidth / innerHeight, in pixels
SimSizes == { [w |-> 42, h |-> 30], [w |-> 240, h |-> 180] }

W(sz) == 10 * sz.w
H(sz) == 10 * sz.h

\* Math.random() * n
Rand(n) == {0, n - 10}

\* (Math.random() - 0.5) * 2v for the two components of a velocity
Velocities(v) == { <<-v, 0>>, <<v, 0>>, <<0, -v>>, <<0, v>> }

Rec(kind, x, y) ==
  [ kind |-> kind, x |-> x, y |-> y, speed |-> 0, speedX |-> 0, speedY |-> 0,
    length |-> 0, size |-> 0, delay |-> 0, life |-> 0, maxLife |-> 0,
    initialRadius |-> 0, drift |-> 0, direction |-> 0 ]

InitCyberNoir(sz) ==
  { [Rec("column", 160 * i, y) EXCEPT !.speed = 40] :
      i \in {0, CyberNoirColumns(sz) - 1}, y \in Rand(H(sz)) }

\* The reset at the bottom edge is taken when Math.random() > 0.975.
AnimateCyberNoir(p, sz) ==
  LET y1 == p.y + p.speed
  IN  IF y1 > H(sz)
      THEN {[p EXCEPT !.y = 0]}
           \cup (IF y1 <= H(sz) + MaxFall * p.speed
                 THEN {[p EXCEPT !.y = y1]} ELSE {})
      ELSE {[p EXCEPT !.y = y1]}

InitVerdant(sz) ==
  { [Rec("drop", x, y) EXCEPT !.speed = v, !.length = l] :
      x \in Rand(W(sz)), y \in Rand(H(sz)), v \in {10, 30}, l \in {100, 300} }

AnimateVerdant(p, sz) ==
  LET y1 == p.y + p.speed
  IN  {[p EXCEPT !.y = IF y1 > H(sz) THEN -p.length ELSE y1]}

InitVelocity(sz) ==
  { [Rec("streak", -1000, y) EXCEPT !.speed = v, !.length = l, !.delay = d] :
      y \in Rand(H(sz)), v \in {40, 120}, l \in {400, 1200}, d \in {0, 100} }

AnimateVelocity(p, sz) ==
  IF p.delay > 0 THEN {[p EXCEPT !.delay = @ - 1]}
  ELSE LET x1 == p.x + p.speed
       IN  IF x1 > W(sz) + p.length
           THEN { [p EXCEPT !.x = -p.length, !.y = y, !.speed = v,
                            !.delay = d] :
                    y \in Rand(H(sz)), v \in {40, 120}, d \in {0, 50} }
           ELSE {[p EXCEPT !.x = x1]}

Min(a, b) == IF a < b THEN a ELSE b
Max(a, b) == IF a > b THEN a ELSE b

InitComic(sz) ==
  { [Rec("halftone", x, y) EXCEPT !.speedX = v[1], !.speedY = v[2]] :
      x \in Rand(W(sz)), y \in Rand(H(sz)), v \in Velocities(6) }

AnimateComic(p, sz) ==
  LET x1 == p.x + p.speedX
      y1 == p.y + p.speedY
  IN  { [p EXCEPT !.speedX = IF x1 < 0 \/ x1 > W(sz) THEN -@ ELSE @,
                  !.speedY = IF y1 < 0 \/ y1 > H(sz) THEN -@ ELSE @,
                  !.x = Max(0, Min(W(sz), x1)),
                  !.y = Max(0, Min(H(sz), y1))] }

InitPrism(sz) ==
  { [Rec("light", x, y) EXCEPT !.speedX = v[1], !.speedY = v[2]] :
      x \in Rand(W(sz)), y \in Rand(H(sz)), v \in Velocities(2) }

AnimatePrism(p, sz) ==
  LET x1 == p.x + p.speedX
      y1 == p.y + p.speedY
  IN  { [p EXCEPT !.x = x1, !.y = y1,
                  !.speedX = IF x1 < 0 \/ x1 > W(sz) THEN -@ ELSE @,
                  !.speedY = IF y1 < 0 \/ y1 > H(sz) THEN -@ ELSE @] }

\* An ember's x moves by Math.sin(waver), at most one pixel a frame: `drift`
\* is the distance x can have from where the ember was spawned.
InitEmber(sz) ==
  { [Rec("ember", x, H(sz) + dy) EXCEPT !.initialRadius = r, !.speedY = v,
                                        !.life = l, !.maxLife = l] :
      x \in Rand(W(sz)), dy \in {0, 500}, r \in {30, 90}, v \in {8, 23},
      l \in {250, 600} }

\* An animateEmber whose life counter runs at two a frame (a mutation for
\* C14).
AnimateEmberAgesTwice(p, sz) ==
  LET life1 == p.life - 2
  IN  IF life1 <= 0 \/ p.initialRadius * life1 <= p.maxLife
      THEN InitEmber(sz)
      ELSE {[p EXCEPT !.life = life1, !.y = @ - p.speedY, !.drift = @ + 10]}

\* An animateEmber that tests for expiry before it updates life and radius
\* (a mutation for C15).
AnimateEmberTestsFirst(p, sz) ==
  IF p.life <= 0 \/ p.initialRadius * p.life <= p.maxLife
  THEN InitEmber(sz)
  ELSE {[p EXCEPT !.life = @ - 1, !.y = @ - p.speedY, !.drift = @ + 10]}

\* radius = initialRadius * (life / maxLife); respawn when life <= 0 or
\* radius <= 0.1.
AnimateEmber(p, sz) ==
  LET life1 == p.life - 1
  IN  IF life1 <= 0 \/ p.initialRadius * life1 <= p.maxLife
      THEN InitEmber(sz)
      ELSE {[p EXCEPT !.life = life1, !.y = @ - p.speedY, !.drift = @ + 10]}

\* The coordinates of initNexus's dot grid along an axis of n pixels:
\* from offset + 40 in steps of 40 while below n - 40, offset = (n % 40) / 2.
DotLine(n) ==
  { d \in {5 * (n % 40) + 400 + 400 * k : k \in 0..(n \div 40)} :
      d < 10 * n - 400 }

NexusDots(sz) == { Rec("dot", x, y) : x \in DotLine(sz.w), y \in DotLine(sz.h) }

Pacman(sz) ==
  [Rec("pacman", 5 * sz.w, 5 * sz.h) EXCEPT !.size = 120, !.speed = 15]

\* A new closure's pacman faces right; the dots are those initNexus pushes.
InitNexus(sz) == {Pacman(sz)} \cup NexusDots(sz)

\* directions = right, down, left, up
DirX(d) == CASE d = 0 -> 1 [] d = 2 -> -1 [] OTHER -> 0
DirY(d) == CASE d = 1 -> 1 [] d = 3 -> -1 [] OTHER -> 0

\* Pacman moves, wraps at the four edges and, when Math.random() < 0.02,
\* turns to a random direction.  A dot keeps its position.
AnimateNexus(p, sz) ==
  IF p.kind = "dot" THEN {p}
  ELSE LET x1 == p.x + DirX(p.direction) * p.speed
           y1 == p.y + DirY(p.direction) * p.speed
           x2 == IF x1 < -p.size THEN W(sz) + p.size ELSE x1
           x3 == IF x2 > W(sz) + p.size THEN -p.size ELSE x2
           y2 == IF y1 < -p.size THEN H(sz) + p.size ELSE y1
           y3 == IF y2 > H(sz) + p.size THEN -p.size ELSE y2
       IN  { [p EXCEPT !.x = x3, !.y = y3, !.direction = d] : d \in 0..3 }

\* The records a theme's init creates in a new closure.
InitRecords(t, sz) ==
  CASE t = "cyber-noir" -> InitCyberNoir(sz)
    [] t = "verdant" -> InitVerdant(sz)
    [] t = "velocity" -> InitVelocity(sz)
    [] t = "comic" -> InitComic(sz)
    [] t = "prism" -> InitPrism(sz)
    [] t = "ember" -> InitEmber(sz)
    [] t = "nexus" -> InitNexus(sz)

\* animate's switch, for one record.
AnimateRecord(t, p, sz) ==
  CASE t = "cyber-noir" -> AnimateCyberNoir(p, sz)
    [] t = "verdant" -> AnimateVerdant(p, sz)
    [] t = "velocity" -> AnimateVelocity(p, sz)
    [] t = "comic" -> AnimateComic(p, sz)
    [] t = "prism" -> AnimatePrism(p, sz)
    [] t = "ember" -> AnimateEmber(p, sz)
    [] t = "nexus" -> AnimateNexus(p, sz)

\* initializeEffect run again by handleResize: `particles = []` drops the
\* record followed and the init creates new ones.  Nexus keeps its own
\* objects: pacman is put back at the centre, `dots` is pushed onto without
\* being cleared, so a dot followed stays where it was.
Reinit(t, p, sz) ==
  IF t = "nexus"
  THEN IF p.kind = "pacman"
       THEN {[p EXCEPT !.x = 5 * sz.w, !.y = 5 * sz.h]}
       ELSE {p} \cup NexusDots(sz)
  ELSE InitRecords(t, sz)

\* The effect runs for theme t: a new closure and initializeEffect().  With
\* the record followed go the length of `particles` and whether the last
\* call on the state was an init or a frame; every animate routine followed
\* here walks `particles` with forEach and leaves its length alone.
SimStart ==
  /\ sim = NoSim
  /\ \E t \in SimThemes, sz \in SimSizes :
       \E p \in InitRecords(t, sz) :
         sim' = [theme |-> t, size |-> sz, length |-> ParticleCount(t, sz),
                 last |-> "init", rec |-> p]
  /\ UNCHANGED << ctlVars, libVars, appVars >>

\* One frame: animate().
SimAdvance ==
  /\ sim # NoSim
  /\ \E p \in AnimateRecord(sim.theme, sim.rec, sim.size) :
       sim' = [sim EXCEPT !.last = "frame", !.rec = p]
  /\ UNCHANGED << ctlVars, libVars, appVars >>

\* handleResize
SimResize ==
  /\ sim # NoSim
  /\ \E sz \in SimSizes :
       \E p \in Reinit(sim.theme, sim.rec, sz) :
         sim' = [sim EXCEPT !.size = sz,
                            !.length = ParticleCount(sim.theme, sz),
                            !.last = "init", !.rec = p]
  /\ UNCHANGED << ctlVars, libVars, appVars >>

\* The effect's cleanup: the closure is dropped.
SimStop ==
  /\ sim # NoSim
  /\ sim' = NoSim
  /\ UNCHANGED << ctlVars, libVars, appVars >>

InitSim ==
  /\ Init
  /\ ctxAvail
  /\ win = [w |-> 800, h |-> 600]

NextSim ==
  \/ SimStart
  \/ SimAdvance
  \/ SimResize
  \/ SimStop

SpecSim == InitSim /\ [][NextSim]_vars

\* ------------------------------------------------------------------------
\* createUser (src/unnamed/part_015)
\* ------------------------------------------------------------------------
\* A string is a sequence of one-character strings.

MaxPad == 2        \* spaces before and after an address

Spaces(n) == [i \in 1..n |-> " "]

Pads == { Spaces(n) : n \in 0..MaxPad }

LocalParts ==
  { << >>, <<"a">>, <<"A", "b">>, <<"a", ".", ".", "b">>, <<"a", " ", "b">>,
    <<"a", "+", "b">> }

AtSigns == { << >>, <<"@">> }

DomainParts ==
  { << >>, <<"b">>, <<"b", ".", "a">>, <<"B", ".", "A">>,
    <<"a", ".", "b", ".", "a">> }

\* The email strings createUser is called with.
Emails ==
  { l \o p \o a \o d \o r :
      l \in Pads, p \in LocalParts, a \in AtSigns, d \in DomainParts,
      r \in Pads }

Roles == {"admin", "user", "guest"}

\* crypto.randomUUID()
Uuids == {"uuid-1", "uuid-2"}

\* new Date()
Dates == {"date-1", "date-2"}

\* /\s/ and /[^\s@]/
IsSpace(c) == c = " "
IsPlain(c) == ~IsSpace(c) /\ c # "@"

\* String.prototype.toLowerCase
LowerChar(c) == CASE c = "A" -> "a" [] c = "B" -> "b" [] OTHER -> c
ToLowerCase(s) == [i \in 1..Len(s) |-> LowerChar(s[i])]

\* String.prototype.trim
RECURSIVE TrimStart(_)
TrimStart(s) ==
  IF s # << >> /\ IsSpace(Head(s)) THEN TrimStart(Tail(s)) ELSE s

RECURSIVE TrimEnd(_)
TrimEnd(s) ==
  IF s # << >> /\ IsSpace(s[Len(s)])
  THEN TrimEnd(SubSeq(s, 1, Len(s) - 1)) ELSE s

Trim(s) == TrimEnd(TrimStart(s))

\* /^[^\s@]+@[^\s@]+\.[^\s@]+$/.test(email): the string splits as
\* local @ domain . rest, the three parts non-empty and free of whitespace
\* and '@'.
ValidateEmail(email) ==
  \E i \in 1..Len(email), j \in 1..Len(email) :
    /\ 1 < i
    /\ i + 1 < j
    /\ j < Len(email)
    /\ email[i] = "@"
    /\ email[j] = "."
    /\ \A k \in 1..Len(email) : k # i => IsPlain(email[k])

NoUser == [id |-> "", email |-> << >>, role |-> "", createdAt |-> ""]

\* createUser(input): what it returns or throws.
CreateUser(input, uuid, date) ==
  IF input.email = << >>
  THEN [threw |-> "ValidationError", message |-> "Email is required",
        user |-> NoUser]
  ELSE IF ~ValidateEmail(input.email)
  THEN [threw |-> "ValidationError", message |-> "Invalid email format",
        user |-> NoUser]
  ELSE [threw |-> "", message |-> "",
        user |-> [id |-> uuid,
                  email |-> Trim(ToLowerCase(input.email)),
                  role |-> IF input.role = "undefined" THEN "user"
                           ELSE input.role,
                  createdAt |-> date]]

\* A caller calls createUser; svc holds the call and its outcome until the
\* caller has taken it.
CallCreateUser ==
  /\ svc = NoCall
  /\ \E e \in Emails, role \in Roles \cup {"undefined"}, uuid \in Uuids,
        date \in Dates :
       LET input == [email |-> e, role |-> role]
       IN  svc' = [op |-> "createUser", input |-> input,
                   result |-> CreateUser(input, uuid, date)]
  /\ UNCHANGED << ctlVars, sim, tog, ls, appVars >>

InitUser ==
  /\ Init
  /\ ctxAvail
  /\ win = [w |-> 800, h |-> 600]

\* The caller takes the returned user or catches the error.
ReturnCreateUser ==
  /\ svc # NoCall
  /\ svc' = NoCall
  /\ UNCHANGED << ctlVars, sim, tog, ls, appVars >>

NextUser ==
  \/ CallCreateUser
  \/ ReturnCreateUser

SpecUser == InitUser /\ [][NextUser]_vars

\* ------------------------------------------------------------------------
\* useToggle (src/unnamed/part_015)
\* ------------------------------------------------------------------------

MaxCalls == 4      \* calls of toggle, setOn and setOff on one mounted hook

\* The argument of useToggle: omitted, true or false.
ToggleArgs == {"undefined", "true", "false"}

\* function useToggle(initialValue = false)
InitialValue(arg) ==
  CASE arg = "true" -> TRUE
    [] arg = "false" -> FALSE
    [] arg = "undefined" -> FALSE

\* The state updaters handed to setIsOn.
ToggledKeeps(prev) == prev
Toggled(prev) == ~prev
SwitchedOn(prev) == TRUE
SwitchedOff(prev) == FALSE

\* setIsOn(updater); calls records what the component has called so far.
SetIsOn(h, name, next) ==
  [h EXCEPT !.isOn = next, !.calls = Append(@, name)]

\* First render: useState(initialValue).
MountToggle ==
  /\ tog = NoHook
  /\ \E arg \in ToggleArgs :
       tog' = [mounted |-> TRUE, arg |-> arg, isOn |-> InitialValue(arg),
               calls |-> << >>]
  /\ UNCHANGED << ctlVars, sim, svc, ls, appVars >>

CallToggle ==
  /\ tog.mounted
  /\ Len(tog.calls) < MaxCalls
  /\ tog' = SetIsOn(tog, "toggle", Toggled(tog.isOn))
  /\ UNCHANGED << ctlVars, sim, svc, ls, appVars >>

CallSetOn ==
  /\ tog.mounted
  /\ Len(tog.calls) < MaxCalls
  /\ tog' = SetIsOn(tog, "setOn", SwitchedOn(tog.isOn))
  /\ UNCHANGED << ctlVars, sim, svc, ls, appVars >>

CallSetOff ==
  /\ tog.mounted
  /\ Len(tog.calls) < MaxCalls
  /\ tog' = SetIsOn(tog, "setOff", SwitchedOff(tog.isOn))
  /\ UNCHANGED << ctlVars, sim, svc, ls, appVars >>

UnmountToggle ==
  /\ tog.mounted
  /\ tog' = NoHook
  /\ UNCHANGED << ctlVars, sim, svc, ls, appVars >>

InitToggle ==
  /\ Init
  /\ ctxAvail
  /\ win = [w |-> 800, h |-> 600]

NextToggle ==
  \/ MountToggle
  \/ CallToggle
  \/ CallSetOn
  \/ CallSetOff
  \/ UnmountToggle

SpecToggle == InitToggle /\ [][NextToggle]_vars

\* ------------------------------------------------------------------------
\* useLocalStorage (src/unnamed/part_015)
\* ------------------------------------------------------------------------
\* JavaScript values: one record shape for every type.

Undefined == [t |-> "undefined", n |-> 0, s |-> << >>]
Null == [t |-> "null", n |-> 0, s |-> << >>]
Num(k) == [t |-> "number", n |-> k, s |-> << >>]
Bool(b) == [t |-> "boolean", n |-> IF b THEN 1 ELSE 0, s |-> << >>]
Str(cs) == [t |-> "string", n |-> 0, s |-> cs]
\* The object { a: k }.
Obj(k) == [t |-> "object", n |-> k, s |-> << >>]

\* The values setValue is called with.
JsValues ==
  { Null, Num(0), Num(1), Bool(FALSE), Bool(TRUE), Str(<< >>), Str(<<"a">>),
    Str(<<"1">>), Obj(1) }

\* The initialValue argument, omitted or given.
InitialValues == JsValues \cup {Undefined}

\* ToBoolean: what `x || y` and `x ? y : z` test.
Truthy(v) ==
  CASE v.t \in {"undefined", "null"} -> FALSE
    [] v.t = "number" -> v.n # 0
    [] v.t = "boolean" -> v.n = 1
    [] v.t = "string" -> v.s # << >>
    [] v.t = "object" -> TRUE

\* initialValue || null
OrNull(v) == IF Truthy(v) THEN v ELSE Null

Digit(k) == CASE k = 0 -> "0" [] k = 1 -> "1"
IsDigit(c) == c \in {"0", "1"}
DigitValue(c) == CASE c = "0" -> 0 [] c = "1" -> 1

\* JSON.stringify on the values above (their strings need no escapes).
Stringify(v) ==
  CASE v.t = "null" -> <<"n", "u", "l", "l">>
    [] v.t = "number" -> << Digit(v.n) >>
    [] v.t = "boolean" -> IF v.n = 1 THEN <<"t", "r", "u", "e">>
                          ELSE <<"f", "a", "l", "s", "e">>
    [] v.t = "string" -> <<"\"">> \o v.s \o <<"\"">>
    [] v.t = "object" -> <<"{", "\"", "a", "\"", ":", Digit(v.n), "}">>

SyntaxError == [ok |-> FALSE, value |-> Undefined]
Parsed(v) == [ok |-> TRUE, value |-> v]

\* JSON.parse: the value a text denotes, or a SyntaxError.
Parse(cs) ==
  CASE cs = <<"n", "u", "l", "l">> -> Parsed(Null)
    [] cs = <<"t", "r", "u", "e">> -> Parsed(Bool(TRUE))
    [] cs = <<"f", "a", "l", "s", "e">> -> Parsed(Bool(FALSE))
    [] Len(cs) = 1 /\ IsDigit(cs[1]) -> Parsed(Num(DigitValue(cs[1])))
    [] /\ Len(cs) >= 2
       /\ cs[1] = "\""
       /\ cs[Len(cs)] = "\""
       /\ \A i \in 2..(Len(cs) - 1) : cs[i] \notin {"\"", "\\"} ->
         Parsed(Str(SubSeq(cs, 2, Len(cs) - 1)))
    [] /\ Len(cs) = 7
       /\ SubSeq(cs, 1, 5) = <<"{", "\"", "a", "\"", ":">>
       /\ IsDigit(cs[6])
       /\ cs[7] = "}" -> Parsed(Obj(DigitValue(cs[6])))
    [] OTHER -> SyntaxError

\* What other code has put into localStorage before the hook mounts: JSON
\* texts, the empty string, a text that is not JSON.
StoredItems == { Stringify(v) : v \in JsValues } \cup { << >>, <<"a">> }

\* getItem(key): store[key] || null
GetItem(store, key) ==
  IF store[key].present /\ store[key].item # << >> THEN store[key]
  ELSE Absent

\* setItem(key, value): store[key] = value
SetItem(store, key, item) == [store EXCEPT ![key] = Entry(item)]

\* removeItem(key): delete store[key]
RemoveItem(store, key) == [store EXCEPT ![key] = Absent]

\* The useState initializer.
InitialState(store, key, initialValue, hasWindow) ==
  IF ~hasWindow THEN OrNull(initialValue)
  ELSE LET item == GetItem(store, key)
       IN  IF item.present
           THEN IF Parse(item.item).ok THEN Parse(item.item).value
                ELSE OrNull(initialValue)
           ELSE OrNull(initialValue)

\* Other code writes an entry while no hook is mounted.
StorageSetItem ==
  /\ ~ls.mounted
  /\ \E key \in StorageKeys, item \in StoredItems :
       ls' = [ls EXCEPT !.store = SetItem(@, key, item)]
  /\ UNCHANGED << ctlVars, sim, svc, tog, appVars >>

\* First render of a component that calls useLocalStorage(key, initialValue).
MountStorage ==
  /\ ~ls.mounted
  /\ \E key \in StorageKeys, initialValue \in InitialValues,
        hasWindow \in BOOLEAN :
       ls' = [mounted |-> TRUE, store |-> ls.store, key |-> key,
              initialValue |-> initialValue, window |-> hasWindow,
              value |-> InitialState(ls.store, key, initialValue, hasWindow),
              last |-> "mount", arg |-> Undefined]
  /\ UNCHANGED << ctlVars, sim, svc, tog, appVars >>

\* setValue(newValue); setItem may throw (the storage is full), which the
\* hook catches after it has set its state.
SetValue ==
  /\ ls.mounted
  /\ \E newValue \in JsValues, full \in BOOLEAN :
       ls' = [ls EXCEPT
                !.value = newValue,
                !.store = IF ls.window /\ ~full
                          THEN SetItem(@, ls.key, Stringify(newValue))
                          ELSE @,
                !.last = "setValue",
                !.arg = newValue]
  /\ UNCHANGED << ctlVars, sim, svc, tog, appVars >>

\* removeValue()
RemoveValue ==
  /\ ls.mounted
  /\ ls' = [ls EXCEPT
              !.value = Null,
              !.store = IF ls.window THEN RemoveItem(@, ls.key) ELSE @,
              !.last = "removeValue",
              !.arg = Undefined]
  /\ UNCHANGED << ctlVars, sim, svc, tog, appVars >>

\* The component unmounts; localStorage keeps its entries.
UnmountStorage ==
  /\ ls.mounted
  /\ ls' = [mounted |-> FALSE, store |-> ls.store]
  /\ UNCHANGED << ctlVars, sim, svc, tog, appVars >>

InitStorage ==
  /\ Init
  /\ ctxAvail
  /\ win = [w |-> 800, h |-> 600]

NextStorage ==
  \/ StorageSetItem
  \/ MountStorage
  \/ SetValue
  \/ RemoveValue
  \/ UnmountStorage

SpecStorage == InitStorage /\ [][NextStorage]_vars

\* ------------------------------------------------------------------------
\* Worker with authentication (src/unnamed/part_017)
\* ------------------------------------------------------------------------
\* A header value or a pathname is a sequence of pieces of text: " " is one
\* space, every other piece holds no space.

\* The initial state of every example below.
InitApp ==
  /\ Init
  /\ ctxAvail
  /\ win = [w |-> 800, h |-> 600]

\* jwtVerify(token, secret): the payload's role of a token signed with
\* JWT_SECRET and not expired ("undefined": a refresh token carries no role),
\* "throws" otherwise.
JwtVerify(token) ==
  CASE token = <<"admin-jwt">> -> "admin"
    [] token = <<"user-jwt">> -> "user"
    [] token = <<"refresh-jwt">> -> "undefined"
    [] OTHER -> "throws"

\* Authorization header values; << >> is a request without the header.
AuthHeaders ==
  { scheme \o gap \o token \o more :
      scheme \in { << >>, <<"Bearer">>, <<"bearer">>, <<"Basic">> },
      gap \in { << >>, <<" ">>, <<" ", " ">> },
      token \in { << >>, <<"admin-jwt">>, <<"user-jwt">>, <<"refresh-jwt">>,
                  <<"expired-jwt">>, <<"forged-jwt">> },
      more \in { << >>, <<" ", "x">> } }

Pathnames ==
  { <<"/auth", "/login">>, <<"/auth", "/register">>,
    <<"/auth", "/login", "/">>, <<"/admin">>, <<"/admin", "/users">>,
    <<"/admin", "istrator">>, <<"/api", "/admin">>, <<"/api", "/data">>,
    <<"/">> }

\* authHeader.split(' ')
RECURSIVE SplitSpaces(_)
SplitSpaces(h) ==
  IF h = << >> THEN << << >> >>
  ELSE LET rest == SplitSpaces(Tail(h))
       IN  IF Head(h) = " " THEN << << >> >> \o rest
           ELSE << <<Head(h)>> \o Head(rest) >> \o Tail(rest)

\* AuthService.extractToken; << >> stands for null and for ''.
ExtractTokenAnyScheme(h) ==
  IF h = << >> THEN << >>
  ELSE LET parts == SplitSpaces(h)
       IN  IF Len(parts) # 2 THEN << >> ELSE parts[2]

ExtractToken(h) ==
  IF h = << >> THEN << >>
  ELSE LET parts == SplitSpaces(h)
       IN  IF Len(parts) # 2 \/ parts[1] # <<"Bearer">> THEN << >>
           ELSE parts[2]

\* A response and the function that made it; role is the verified user's.
Response(status, by, role) == [status |-> status, by |-> by, role |-> role]

\* authMiddleware: the user's role, or a 401 response.
AuthMiddleware(h) ==
  LET token == ExtractToken(h)
  IN  IF token = << >> \/ JwtVerify(token) = "throws"
      THEN Response(401, "authMiddleware", "")
      ELSE Response(0, "", JwtVerify(token))

\* requireRole(...allowedRoles)(user): 0 stands for null.
RequireRole(allowedRoles, role) ==
  IF role \notin allowedRoles THEN Response(403, "requireRole", role)
  ELSE Response(0, "", role)

\* handlePublicRoute
HandlePublicRoute(method, path) ==
  IF path = <<"/auth", "/login">>
  THEN IF method # "POST" THEN Response(405, "handlePublicRoute", "")
       ELSE Response(200, "handlePublicRoute", "user")
  ELSE Response(404, "handlePublicRoute", "")

\* pathname.startsWith(prefix)
StartsWith(path, prefix) ==
  Len(path) >= Len(prefix) /\ SubSeq(path, 1, Len(prefix)) = prefix

\* default.fetch
WorkerFetch(method, path, h) ==
  IF path = <<"/auth", "/login">> \/ path = <<"/auth", "/register">>
  THEN HandlePublicRoute(method, path)
  ELSE LET authResult == AuthMiddleware(h)
       IN  IF authResult.status # 0 THEN authResult
           ELSE IF StartsWith(path, <<"/admin">>)
           THEN LET authzError == RequireRole({"admin"}, authResult.role)
                IN  IF authzError.status # 0 THEN authzError
                    ELSE Response(200, "handleAdminRoute", authResult.role)
           ELSE Response(200, "handleProtectedRoute", authResult.role)

\* A request arrives and is answered.
Fetch ==
  /\ req = NoCall
  /\ \E method \in {"GET", "POST"}, path \in Pathnames, h \in AuthHeaders :
       req' = [op |-> "fetch", method |-> method, path |-> path,
               header |-> h, response |-> WorkerFetch(method, path, h)]
  /\ UNCHANGED << ctlVars, sim, libVars, sess, rain, edge, valor, kv >>

\* A handler applies requireRole(...allowedRoles) to a verified user.
CallRequireRole ==
  /\ req = NoCall
  /\ \E allowedRoles \in SUBSET {"admin", "user"},
        role \in {"admin", "user", "undefined"} :
       req' = [op |-> "requireRole", allowedRoles |-> allowedRoles,
               role |-> role, response |-> RequireRole(allowedRoles, role)]
  /\ UNCHANGED << ctlVars, sim, libVars, sess, rain, edge, valor, kv >>

\* The response has been sent.
Respond ==
  /\ req # NoCall
  /\ req' = NoCall
  /\ UNCHANGED << ctlVars, sim, libVars, sess, rain, edge, valor, kv >>

NextAuth ==
  \/ Fetch
  \/ CallRequireRole
  \/ Respond

SpecAuth == InitApp /\ [][NextAuth]_vars

\* ------------------------------------------------------------------------
\* SessionManager (src/unnamed/part_017)
\* ------------------------------------------------------------------------

MaxClock == 36     \* hours the clock runs

\* The user objects stored in sessions (an object of one property).
SessionUsers == { Obj(0), Obj(1) }

\* SESSIONS.get(key): the text put under the key and not yet deleted or
\* expired, absent otherwise.
KvGet(s, key) ==
  IF s.store[key].present /\ s.now < s.store[key].expires
  THEN Entry(s.store[key].item)
  ELSE Absent

\* What getSession(sessionId) returns.
GetSessionResult(s, id) ==
  LET data == KvGet(s, <<"session:", id>>)
  IN  IF ~data.present \/ data.item = << >> THEN Null
      ELSE Parse(data.item).value

\* createSession(user): put under a new id with expirationTtl 86400 (24 h).
CreateSession ==
  /\ \E id \in SessionIds \ ({"sid-0"} \cup { c.id : c \in sess.created }),
        user \in SessionUsers :
       sess' = [sess EXCEPT
                  !.store[<<"session:", id>>] =
                     [present |-> TRUE, item |-> Stringify(user),
                      expires |-> sess.now + 24],
                  !.created = @ \cup {[id |-> id, user |-> user,
                                       at |-> sess.now]},
                  !.last = [op |-> "createSession", id |-> id,
                            result |-> user]]
  /\ UNCHANGED << ctlVars, sim, libVars, req, rain, edge, valor, kv >>

\* getSession(sessionId), with an id createSession returned or with "sid-0".
GetSession ==
  /\ \E id \in {"sid-0"} \cup { c.id : c \in sess.created } :
       sess' = [sess EXCEPT
                  !.last = [op |-> "getSession", id |-> id,
                            result |-> GetSessionResult(sess, id)]]
  /\ UNCHANGED << ctlVars, sim, libVars, req, rain, edge, valor, kv >>

\* revokeSession(sessionId): SESSIONS.delete
RevokeSessionKeepsEntry ==
  /\ \E id \in {"sid-0"} \cup { c.id : c \in sess.created } :
       sess' = [sess EXCEPT
                  !.revoked = @ \cup {id},
                  !.last = [op |-> "revokeSession", id |-> id,
                            result |-> Undefined]]
  /\ UNCHANGED << ctlVars, sim, libVars, req, rain, edge, valor, kv >>

RevokeSession ==
  /\ \E id \in {"sid-0"} \cup { c.id : c \in sess.created } :
       sess' = [sess EXCEPT
                  !.store[<<"session:", id>>].present = FALSE,
                  !.revoked = @ \cup {id},
                  !.last = [op |-> "revokeSession", id |-> id,
                            result |-> Undefined]]
  /\ UNCHANGED << ctlVars, sim, libVars, req, rain, edge, valor, kv >>

\* Twelve hours pass.
ClockTick ==
  /\ sess.now < MaxClock
  /\ sess' = [sess EXCEPT !.now = @ + 12]
  /\ UNCHANGED << ctlVars, sim, libVars, req, rain, edge, valor, kv >>

NextSess ==
  \/ CreateSession
  \/ GetSession
  \/ RevokeSession
  \/ ClockTick

SpecSess == InitApp /\ [][NextSess]_vars

\* ------------------------------------------------------------------------
\* MatrixRain (src/unnamed/part_004)
\* ------------------------------------------------------------------------

MaxRainFrames == 12    \* frame callbacks requested by one mounted component

\* What the component renders: null, or the canvas and its overlay.
RainRender(e, m) == IF ~e \/ m = "light" THEN "null" ELSE "canvas"

\* The effect's cleanup function, when the last effect run returned one.
RainCleanupKeepsFrame(r) ==
  IF ~r.cleanup THEN r
  ELSE [r EXCEPT !.listener = FALSE, !.cleanup = FALSE]

RainCleanup(r) ==
  IF ~r.cleanup THEN r
  ELSE [r EXCEPT !.listener = FALSE, !.cleanup = FALSE,
                 !.pending = IF r.rafRef # 0 THEN @ \ {r.rafRef} ELSE @]

\* The effect body under the props and the output just rendered: it draws
\* once, requests the next frame and listens for resizes.
RainEffect(r, sz) ==
  IF ~r.enabled \/ r.mode = "light" THEN r
  ELSE IF r.output # "canvas" \/ ~r.ctx THEN r
  ELSE [r EXCEPT !.canvas = sz,
                 !.draws = @ + 1,
                 !.rafRef = @ + 1,
                 !.pending = @ \cup {r.rafRef + 1},
                 !.listener = TRUE,
                 !.cleanup = TRUE]

\* First render and first effect run.
RainMount ==
  /\ ~rain.mounted
  /\ \E e \in BOOLEAN, m \in Modes, ctx \in BOOLEAN, sz \in WindowSizes :
       rain' = RainEffect(
                 [mounted |-> TRUE, enabled |-> e, mode |-> m, ctx |-> ctx,
                  output |-> RainRender(e, m), win |-> sz,
                  canvas |-> NoCanvas, draws |-> 0, rafRef |-> 0,
                  pending |-> {}, listener |-> FALSE, cleanup |-> FALSE], sz)
  /\ UNCHANGED << ctlVars, sim, libVars, req, sess, edge, valor, kv >>

\* The parent renders the component with other props: the dependencies
\* [enabled, mode] changed, so the cleanup runs and then the effect.
RainSetProps ==
  /\ rain.mounted
  /\ rain.rafRef < MaxRainFrames
  /\ \E e \in BOOLEAN, m \in Modes :
       /\ << e, m >> # << rain.enabled, rain.mode >>
       /\ rain' = RainEffect(
                    [RainCleanup(rain) EXCEPT
                       !.enabled = e, !.mode = m,
                       !.output = RainRender(e, m),
                       !.canvas = IF RainRender(e, m) = rain.output THEN @
                                  ELSE NoCanvas],
                    rain.win)
  /\ UNCHANGED << ctlVars, sim, libVars, req, sess, edge, valor, kv >>

\* The browser runs a pending frame callback: animate draws and requests
\* the next frame.
RainFrame ==
  /\ rain.mounted
  /\ rain.rafRef < MaxRainFrames
  /\ \E id \in rain.pending :
       rain' = [rain EXCEPT !.draws = @ + 1,
                            !.rafRef = @ + 1,
                            !.pending = (@ \ {id}) \cup {rain.rafRef + 1}]
  /\ UNCHANGED << ctlVars, sim, libVars, req, sess, edge, valor, kv >>

\* The window is resized; handleResize runs when it is registered.
RainResize ==
  /\ rain.mounted
  /\ \E sz \in WindowSizes \ {rain.win} :
       rain' = [rain EXCEPT !.win = sz,
                            !.canvas = IF rain.listener THEN sz ELSE @]
  /\ UNCHANGED << ctlVars, sim, libVars, req, sess, edge, valor, kv >>

\* The component is unmounted: the cleanup runs.
RainUnmount ==
  /\ rain.mounted
  /\ rain' = NoHook
  /\ UNCHANGED << ctlVars, sim, libVars, req, sess, edge, valor, kv >>

NextRain ==
  \/ RainMount
  \/ RainSetProps
  \/ RainFrame
  \/ RainResize
  \/ RainUnmount

SpecRain == InitApp /\ [][NextRain]_vars

\* ------------------------------------------------------------------------
\* Config usage example: worker with a cache (src/unnamed/part_017)
\* ------------------------------------------------------------------------

MaxEdgeClock == 2      \* hours the clock runs

\* `cache:${pathname}`
CacheKeyIgnoresPath(path) == <<"cache:">>
CacheKey(path) == <<"cache:", path>>

\* config.cacheTtl, in hours: parseInt(CACHE_TTL || '3600', 10) seconds.
CacheTtl(env) ==
  CASE env.CACHE_TTL \in {"undefined", ""} -> 1
    [] env.CACHE_TTL = "3600" -> 1
    [] env.CACHE_TTL = "7200" -> 2

\* The env and the origin header a request comes with.
EdgeEnvs ==
  [ ENVIRONMENT : {"development", "production"},
    CACHE_TTL : {"undefined", "7200"} ]

Origins == {"null", "https://example.com"}

\* isAllowedOrigin
IsAllowedOrigin(origin) ==
  IF origin = "null" THEN FALSE
  ELSE origin \in {"https://example.com", "https://www.example.com"}

\* A request arrives at an idle isolate: the origin check in production, then
\* kv.get(cacheKey) and, on a hit, the response.
EdgeArrive ==
  /\ \E i \in EdgeSlots, path \in EdgePaths, env \in EdgeEnvs,
        origin \in Origins :
       /\ edge.reqs[i].pc \in {"idle", "done"}
       /\ LET e == edge.store[CacheKey(path)]
              cached == IF e.present /\ edge.now < e.expires THEN e.item
                        ELSE << >>
              r == [path |-> path, ttl |-> CacheTtl(env), cached |-> cached,
                    data |-> 0, status |-> 0, xcache |-> "", body |-> << >>]
          IN  edge' = [edge EXCEPT !.reqs[i] =
                 IF env.ENVIRONMENT = "production" /\ ~IsAllowedOrigin(origin)
                 THEN [pc |-> "done"] @@
                      [r EXCEPT !.status = 403, !.ttl = 0, !.cached = << >>]
                 ELSE IF cached # << >>
                 THEN [pc |-> "done"] @@
                      [r EXCEPT !.status = 200, !.xcache = "HIT",
                                !.body = cached, !.ttl = 0]
                 ELSE [pc |-> "query"] @@ r]
  /\ UNCHANGED << ctlVars, sim, libVars, req, sess, rain, valor, kv >>

\* db.prepare('SELECT * FROM users LIMIT 10').all()
EdgeQuery ==
  /\ \E i \in EdgeSlots :
       /\ edge.reqs[i].pc = "query"
       /\ edge' = [edge EXCEPT !.reqs[i].pc = "put",
                               !.reqs[i].data = edge.db]
  /\ UNCHANGED << ctlVars, sim, libVars, req, sess, rain, valor, kv >>

\* kv.put(cacheKey, JSON.stringify(data), { expirationTtl: ttl }) and the
\* response.
EdgePut ==
  /\ \E i \in EdgeSlots :
       /\ edge.reqs[i].pc = "put"
       /\ LET r == edge.reqs[i]
              text == Stringify(Obj(r.data))
          IN  edge' = [edge EXCEPT
                 !.store[CacheKey(r.path)] =
                    [present |-> TRUE, item |-> text,
                     expires |-> edge.now + r.ttl],
                 !.stored[r.path] = text,
                 !.reqs[i] = [r EXCEPT !.pc = "done", !.status = 200,
                                       !.xcache = "MISS", !.body = text,
                                       !.ttl = 0, !.data = 0]]
  /\ UNCHANGED << ctlVars, sim, libVars, req, sess, rain, valor, kv >>

\* Another client changes the users table.
DbChange ==
  /\ edge' = [edge EXCEPT !.db = 1 - @]
  /\ UNCHANGED << ctlVars, sim, libVars, req, sess, rain, valor, kv >>

\* An hour passes.
EdgeTick ==
  /\ edge.now < MaxEdgeClock
  /\ edge' = [edge EXCEPT !.now = @ + 1]
  /\ UNCHANGED << ctlVars, sim, libVars, req, sess, rain, valor, kv >>

NextEdge ==
  \/ EdgeArrive
  \/ EdgeQuery
  \/ EdgePut
  \/ DbChange
  \/ EdgeTick

SpecEdge == InitApp /\ [][NextEdge]_vars

\* ------------------------------------------------------------------------
\* The ripples of a running valor simulation (src/unnamed/part_004)
\* ------------------------------------------------------------------------

MaxValorFrames == 130  \* frames advanced

\* The outcomes of `Math.random() < 0.015` over a run: an impact on every
\* frame, on every second frame, or about as often as 1.5 % gives.
ImpactPeriods == {1, 2, 67}

\* A ripple as it is pushed, with the number of advances it has had since
\* its delay ran out.
NewRipple(sm, ss, d) ==
  [ delay |-> d, radius |-> 0, maxRadius |-> RippleOf(sm, ss, d).maxRadius,
    speed |-> RippleOf(sm, ss, d).speed, opacity |-> 800, adv |-> 0 ]

\* initValor; sm and ss are the draws of this run for maxRadius and speed
\* (with mix, every other impact takes the opposite draws).
ValorStart ==
  /\ valor = NoCall
  /\ \E sm \in Seeds, ss \in Seeds, mix \in BOOLEAN, every \in ImpactPeriods :
       valor' = [op |-> "valor", sm |-> sm, ss |-> ss, mix |-> mix,
                 every |-> every, frame |-> 0,
                 ripples |-> << NewRipple(sm, ss, 0), NewRipple(sm, ss, 30),
                                NewRipple(sm, ss, 60) >>]
  /\ UNCHANGED << ctlVars, sim, libVars, req, sess, rain, edge, kv >>

\* animateValor: a new impact when the draw says so, then the filter.
ValorAdvance ==
  /\ valor # NoCall
  /\ valor.frame < MaxValorFrames
  /\ \E spawn \in {valor.frame % valor.every = 0} :
       /\ LET flip == IF valor.mix /\ valor.frame % (2 * valor.every) = 0
                      THEN 1 ELSE 0
              pushed == IF spawn
                        THEN Append(valor.ripples,
                                    NewRipple((valor.sm + flip) % 2,
                                              (valor.ss + flip) % 2, 0))
                        ELSE valor.ripples
              counted == [i \in 1..Len(pushed) |->
                            [pushed[i] EXCEPT
                               !.adv = IF pushed[i].delay > 0 THEN @
                                       ELSE @ + 1]]
          IN  valor' = [valor EXCEPT
                          !.frame = @ + 1,
                          !.ripples = FilterRipples(counted)]
  /\ UNCHANGED << ctlVars, sim, libVars, req, sess, rain, edge, kv >>

\* The effect is cleaned up.
ValorStop ==
  /\ valor # NoCall
  /\ valor' = NoCall
  /\ UNCHANGED << ctlVars, sim, libVars, req, sess, rain, edge, kv >>

NextValor ==
  \/ ValorStart
  \/ ValorAdvance
  \/ ValorStop

SpecValor == InitApp /\ [][NextValor]_vars

\* ------------------------------------------------------------------------
\* Mock KV namespace (src/testing/backend/mocks/cloudflare-bindings.ts)
\* ------------------------------------------------------------------------

\* Keys and prefixes (sequences of pieces of text) and values.
KvKeys == { <<"user:">>, <<"user:", "1">>, <<"post:">> }
KvPrefixes == { << >>, <<"user:">>, <<"user:", "1">>, <<"post:", "1">> }
KvValues == { << >>, <<"1">>, <<"a">> }

\* The position of a key in the Map, 0 when it has none.
MapIndex(storage, key) ==
  LET at == { i \in 1..Len(storage) : storage[i].key = key }
  IN  IF at = {} THEN 0 ELSE CHOOSE i \in at : TRUE

\* put(key, value) with a string: storage.set(key, value)
MockPut ==
  /\ \E key \in KvKeys, value \in KvValues :
       LET i == MapIndex(kv.storage, key)
       IN  kv' = [ storage |->
                     IF i = 0
                     THEN Append(kv.storage, [key |-> key, value |-> value])
                     ELSE [kv.storage EXCEPT ![i].value = value],
                   puts |-> { e \in kv.puts : e.key # key }
                              \cup {[key |-> key, value |-> value]},
                   last |-> [op |-> "put", key |-> key, limit |-> 0,
                             result |-> Undefined, keys |-> << >>] ]
  /\ UNCHANGED << ctlVars, sim, libVars, req, sess, rain, edge, valor >>

\* delete(key): storage.delete(key)
MockDelete ==
  /\ \E key \in KvKeys :
       LET Other(e) == e.key # key
       IN  kv' = [ storage |-> SelectSeq(kv.storage, Other),
                   puts |-> { e \in kv.puts : e.key # key },
                   last |-> [op |-> "delete", key |-> key, limit |-> 0,
                             result |-> Undefined, keys |-> << >>] ]
  /\ UNCHANGED << ctlVars, sim, libVars, req, sess, rain, edge, valor >>

\* get(key, options): null for a value that is not truthy, the parsed value
\* for type 'json' (result undefined: JSON.parse threw), else the value.
MockGet ==
  /\ \E key \in KvKeys, type \in {"undefined", "json"} :
       LET i == MapIndex(kv.storage, key)
           value == IF i = 0 THEN << >> ELSE kv.storage[i].value
           result == IF i = 0 \/ value = << >> THEN Null
                     ELSE IF type = "json" THEN Parse(value).value
                     ELSE Str(value)
       IN  kv' = [kv EXCEPT !.last = [op |-> "get", key |-> key,
                                      limit |-> 0,
                                      result |-> result, keys |-> << >>,
                                      type |-> type]]
  /\ UNCHANGED << ctlVars, sim, libVars, req, sess, rain, edge, valor >>

\* list(options): filter by prefix, slice(0, limit || 1000), map to names;
\* limit 0 stands for an absent limit as well.
MockList ==
  /\ \E prefix \in KvPrefixes, limit \in 0..2 :
       LET Match(e) == \/ prefix = << >>
                       \/ /\ Len(e.key) >= Len(prefix)
                          /\ SubSeq(e.key, 1, Len(prefix)) = prefix
           found == SelectSeq(kv.storage, Match)
           n == IF limit = 0 THEN 1000 ELSE limit
           keys == SubSeq(found, 1, IF Len(found) < n THEN Len(found) ELSE n)
       IN  kv' = [kv EXCEPT !.last = [op |-> "list", key |-> prefix,
                                      limit |-> limit,
                                      result |-> Undefined,
                                      keys |-> [j \in 1..Len(keys) |->
                                                  keys[j].key]]]
  /\ UNCHANGED << ctlVars, sim, libVars, req, sess, rain, edge, valor >>

NextKV ==
  \/ MockPut
  \/ MockDelete
  \/ MockGet
  \/ MockList

SpecKV == InitApp /\ [][NextKV]_vars

\* ------------------------------------------------------------------------
\* Properties
\* ------------------------------------------------------------------------

\* The record count theme t's init produces in a new closure at size sz.
FreshCount(t, sz) ==
  RecordCount(InitializeEffect(NewClosure(t, "light", "mount"), sz, 0))

\* The records of a closure and their motion values, whatever the palette.
Motion(cl) == [cl EXCEPT !.mode = "any", !.via = "any"]

\* C1: changing only the colour mode while a theme animates (same theme,
\* same canvas size) leaves the simulation state untouched: the same records
\* with the same positions before and after; initialize is not run again.
C1_ModeChangeKeepsState ==
  [][ ( /\ cleanup # 0
        /\ mounted' = "yes"
        /\ mode' # mode
        /\ theme' = theme
        /\ enabled' = enabled
        /\ canvas' = canvas )
      => ( /\ cleanup' # 0
           /\ Motion(closures'[cleanup']) = Motion(closures[cleanup]) ) ]_vars

\* C2: for every simulation the number of records after any number of
\* advance calls equals the number right after initialize.
C2_AdvanceKeepsCount ==
  \A c \in DOMAIN closures : RecordCount(closures[c]) = closures[c].initN

\* C3: after a theme change from A to B while active, the state every later
\* advance reads has exactly the record count B's initialize produces at the
\* current canvas size, and holds no record created for A.
C3_ThemeSwitchCount ==
  \A f \in pending :
    LET cl == closures[f.cl]
    IN  cl.via = "theme" =>
          /\ RecordCount(cl) = FreshCount(cl.theme, canvas)
          /\ MadeFor(cl) \subseteq {cl.theme}

\* C4: a theme string that is no registered key falls back to a no-op: its
\* initialize leaves an empty state, its frames draw nothing and change no
\* state, nothing is raised, and the effect completes as for any theme.
C4_UnknownThemeIsNoOp ==
  /\ \A c \in DOMAIN closures :
       closures[c].theme \notin Registered =>
         /\ RecordCount(closures[c]) = 0
         /\ closures[c].ripples = << >>
         /\ closures[c].age = 0
  /\ (mounted = "yes" /\ enabled /\ ctxAvail /\ theme \notin Registered) =>
       /\ cleanup # 0
       /\ pending # {}
       /\ lastFrame = NoFrame
       /\ ~uncaught

\* The unknown theme was selected while another theme was animating, and
\* its frame is pending.
C4_Witness ==
  /\ theme = UnknownTheme
  /\ cleanup # 0
  /\ closures[cleanup].via = "theme"
  /\ pending # {}

\* C5: once the component is disabled or unmounted no frame callback is
\* pending, so no advance runs until it is enabled again.
C5_NoFrameWhenOff ==
  (mounted # "yes" \/ ~enabled) => pending = {}

\* The component was animating (it had requested frames) and is disabled.
C5_Witness ==
  /\ mounted = "yes"
  /\ ~enabled
  /\ rafRef # 0
  /\ pending = {}

\* C6: when an advance raises during a frame, the error does not leave the
\* frame callback and the next frame is still scheduled.
C6_FailedFrameIsSkipped ==
  (lastFrame.threw /\ mounted = "yes") => (~uncaught /\ pending # {})

\* C7: every frame callback that can run belongs to the effect of the
\* current theme: the old one is cancelled on a theme change, and the state
\* it reads was built, completely, by that theme's initialize alone.
C7_FramesBelongToCurrentTheme ==
  /\ \A f \in pending :
       LET cl == closures[f.cl]
       IN  /\ f.cl = cleanup
           /\ cl.theme = theme
           /\ MadeFor(cl) \subseteq {theme}
           /\ (theme \in Registered \ {"valor"} =>
                 RecordCount(cl) >= FreshCount(theme, canvas))
  /\ lastFrame.routine \in {"none", theme}
  /\ lastFrame.made \subseteq {lastFrame.routine}

\* A frame callback has run on the state built after a theme change.
C7_Witness ==
  \E f \in pending :
    /\ closures[f.cl].via = "theme"
    /\ closures[f.cl].theme \in Registered
    /\ closures[f.cl].age >= 2

\* C8: a resize while a theme animates leaves the theme's record count as it
\* was, for every theme, and the records' positions are drawn from the new
\* dimensions.
C8_ResizeKeepsCount ==
  [][ ( /\ cleanup # 0
        /\ cleanup' = cleanup
        /\ win' # win
        /\ UNCHANGED <<mounted, enabled, theme, mode>> )
      => ( /\ RecordCount(closures'[cleanup]) = RecordCount(closures[cleanup])
           /\ DrawnAt(closures'[cleanup]) \subseteq {canvas'} ) ]_vars

\* C9: two initialize calls in a row at the same canvas size and mode, with
\* no advance between them, give the same record count, all collections of
\* the theme counted.
C9_ReinitIsFresh ==
  [][ ( /\ cleanup # 0
        /\ cleanup' = cleanup
        /\ UNCHANGED <<mounted, enabled, theme, mode, canvas>>
        /\ closures[cleanup].age = 0
        /\ closures'[cleanup].age = 0 )
      => RecordCount(closures'[cleanup]) = RecordCount(closures[cleanup]) ]_vars

\* The margin by which each simulation lets a record be outside the canvas:
\* the length, size or step its wrap or bounce uses (ember: 600 frames at
\* 2.3 pixels).
Margin(t) ==
  CASE t = "cyber-noir" -> 0
    [] t = "verdant" -> 300
    [] t = "velocity" -> 1200
    [] t = "comic" -> 0
    [] t = "prism" -> 2
    [] t = "ember" -> 13800
    [] t = "nexus" -> 120

InBounds(p, sz, m) ==
  /\ p.x - p.drift >= -m
  /\ p.x + p.drift <= W(sz) + m
  /\ p.y >= -m
  /\ p.y <= H(sz) + m

\* C10: after any number of advances every record's position is within the
\* canvas extended by the simulation's fixed margin.  A cyber-noir column
\* below the bottom edge is reset at a random frame, which the claim asks
\* for only eventually: its fall below that edge is not held to a margin.
C10_PositionsStayInBounds ==
  sim # NoSim =>
    IF sim.theme = "cyber-noir"
    THEN InBounds([sim.rec EXCEPT !.y = Min(@, H(sim.size))], sim.size,
                  Margin(sim.theme))
    ELSE InBounds(sim.rec, sim.size, Margin(sim.theme))

\* C11: at most one frame callback of the controller is pending at any time,
\* after any sequence of enable, disable, theme, mode and resize events; a
\* resize neither requests a frame nor cancels the pending one.
C11_SingleFrameChain ==
  /\ [](Cardinality(pending) <= 1)
  /\ [][win' # win => (pending' = pending /\ rafRef' = rafRef)]_vars

\* A resize has re-initialized the state of a running simulation, and its
\* one frame callback is pending.
C11_Witness ==
  /\ cleanup # 0
  /\ theme \in Registered
  /\ closures[cleanup].age = 0
  /\ Cardinality(pending) = 1

\* C12: when the canvas's 2D context is unavailable the controller stays
\* idle whatever it is asked to do: no closure is initialized, no frame
\* callback is requested, no listener is registered, the canvas is not sized
\* and nothing is thrown.
C12_NoContextStaysIdle ==
  ~ctxAvail =>
    /\ closures = << >>
    /\ pending = {}
    /\ rafRef = 0
    /\ listeners = {}
    /\ cleanup = 0
    /\ lastFrame = NoFrame
    /\ ~uncaught
    /\ mounted # "torn"
    /\ canvas \in {NoCanvas, DefaultCanvas}

\* The component is mounted and enabled with a registered theme, and the
\* context is unavailable.
C12_Witness ==
  /\ ~ctxAvail
  /\ mounted = "yes"
  /\ enabled
  /\ theme \in Registered

OtherMode(m) == IF m = "light" THEN "dark" ELSE "light"

C14_FirstEmberFrame ==
  [][ ( /\ sim # NoSim
        /\ sim' # NoSim
        /\ sim.theme = "ember"
        /\ sim.last = "init"
        /\ sim'.last = "frame" )
      => ( /\ sim'.length = 150
           /\ sim'.rec.life = sim.rec.life - 1
           /\ sim'.rec.maxLife = sim.rec.maxLife
           /\ sim'.rec.initialRadius = sim.rec.initialRadius
           /\ sim'.rec.initialRadius * sim'.rec.life >= 0 ) ]_vars

\* An ember one frame after its init.
C14_Witness ==
  /\ sim # NoSim
  /\ sim.theme = "ember"
  /\ sim.last = "frame"
  /\ sim.rec.life = sim.rec.maxLife - 1

\* C15: an ember that expires is respawned within the same advance, at the
\* bottom edge and with a fresh life, never removed: after every advance the
\* particle has 0 < life <= maxLife and radius > 0.1, and the state keeps
\* its 150 particles.
C15_EmberRespawns ==
  (sim # NoSim /\ sim.theme = "ember") =>
    /\ sim.length = 150
    /\ 0 < sim.rec.life
    /\ sim.rec.life <= sim.rec.maxLife
    /\ sim.rec.initialRadius * sim.rec.life > sim.rec.maxLife
    /\ sim.rec.life = sim.rec.maxLife =>
         /\ sim.rec.y >= H(sim.size)
         /\ sim.rec.y <= H(sim.size) + 500
         /\ sim.rec.drift = 0

\* An advance has respawned the ember followed.
C15_Witness ==
  /\ sim # NoSim
  /\ sim.theme = "ember"
  /\ sim.last = "frame"
  /\ sim.rec.life = sim.rec.maxLife

\* C16: initialize for aurora (theme 'default') on an 800x600 canvas in dark
\* mode produces exactly 5 wave records, each with baseY between 0 and 600.
C16_AuroraInit ==
  \A c \in DOMAIN closures :
    LET cl == closures[c]
    IN  ( /\ cl.theme = "default"
          /\ cl.mode = "dark"
          /\ cl.particles.at = {[w |-> 800, h |-> 600]} )
        => ( /\ cl.particles.n = 5
             /\ Len(cl.waves) = 5
             /\ \A i \in 1..Len(cl.waves) :
                  cl.waves[i] >= 0 /\ cl.waves[i] <= 600 )

\* Aurora has been initialized on an 800x600 canvas in dark mode and no frame
\* has run on the state since.
C16_Witness ==
  \E c \in DOMAIN closures :
    /\ closures[c].theme = "default"
    /\ closures[c].mode = "dark"
    /\ closures[c].particles.at = {[w |-> 800, h |-> 600]}
    /\ closures[c].age = 0

\* C17: createUser normalizes the email.  For a well-formed address given
\* with upper-case letters or with leading and trailing whitespace it
\* returns a user whose email is the trimmed, lower-cased address and whose
\* role is the given role, or 'user' when none is given.
C17_CreateUserNormalizes ==
  (svc # NoCall /\ ValidateEmail(Trim(svc.input.email))) =>
    /\ svc.result.threw = ""
    /\ svc.result.user.email = ToLowerCase(Trim(svc.input.email))
    /\ svc.result.user.role = IF svc.input.role = "undefined" THEN "user"
                              ELSE svc.input.role

\* Consecutive dots before the '@'.
DotsInLocalPart(e) ==
  \E i \in 1..Len(e), k \in 1..Len(e) :
    /\ i + 1 < k
    /\ e[k] = "@"
    /\ e[i] = "."
    /\ e[i + 1] = "."

\* The malformed addresses: no '@', nothing before it, nothing after it,
\* whitespace inside the address, or consecutive dots in the local part.
Malformed(e) ==
  \/ \A i \in 1..Len(e) : e[i] # "@"
  \/ e[1] = "@"
  \/ e[Len(e)] = "@"
  \/ \E i \in 1..Len(Trim(e)) : IsSpace(Trim(e)[i])
  \/ DotsInLocalPart(e)

\* C18: createUser rejects every bad email without creating a user:
\* ValidationError 'Email is required' for an empty email, ValidationError
\* 'Invalid email format' for every malformed address.
C18_CreateUserRejects ==
  svc # NoCall =>
    /\ svc.input.email = << >> =>
         /\ svc.result.threw = "ValidationError"
         /\ svc.result.message = "Email is required"
         /\ svc.result.user = NoUser
    /\ (svc.input.email # << >> /\ Malformed(svc.input.email)) =>
         /\ svc.result.threw = "ValidationError"
         /\ svc.result.message = "Invalid email format"
         /\ svc.result.user = NoUser

\* The index of the last setOn or setOff among the calls, 0 when there is
\* none.
LastSwitch(calls) ==
  LET at == { i \in 1..Len(calls) : calls[i] # "toggle" }
  IN  IF at = {} THEN 0 ELSE CHOOSE i \in at : \A j \in at : j <= i

\* C20: useToggle is a two-state machine.  isOn starts as the argument
\* (false when omitted), toggle negates it, setOn makes it true and setOff
\* false whatever it was: at every moment isOn is what the last setOn or
\* setOff (or, without one, the argument) made it, negated once for every
\* toggle called since.
C20_ToggleMachine ==
  tog.mounted =>
    LET k     == LastSwitch(tog.calls)
        base  == IF k = 0 THEN (tog.arg = "true") ELSE (tog.calls[k] = "setOn")
        flips == Len(tog.calls) - k
    IN  tog.isOn = IF flips % 2 = 0 THEN base ELSE ~base

C20_Witness ==
  /\ tog.mounted
  /\ tog.arg = "undefined"
  /\ tog.calls = <<"toggle", "setOff", "setOff", "toggle">>
  /\ tog.isOn

\* C19: the hook value and the storage entry agree.  After setValue(v) the
\* value is v and storage[key] is the JSON text of v; after removeValue()
\* the value is null and storage has no entry for the key; after mount the
\* value is the stored value when the key is present and the initial value
\* (null when none was given) otherwise.
C19_ValueAgreesWithStorage ==
  (ls.mounted /\ ls.window) =>
    /\ ls.last = "setValue" =>
         /\ ls.value = ls.arg
         /\ ls.store[ls.key] = Entry(Stringify(ls.arg))
    /\ ls.last = "removeValue" =>
         /\ ls.value = Null
         /\ ls.store[ls.key] = Absent
    /\ (ls.last = "mount" /\ ls.store[ls.key].present
          /\ Parse(ls.store[ls.key].item).ok) =>
         ls.value = Parse(ls.store[ls.key].item).value
    /\ (ls.last = "mount" /\ ~ls.store[ls.key].present) =>
         ls.value = IF ls.initialValue = Undefined THEN Null
                    ELSE ls.initialValue

\* The header is 'Bearer <token>' with a token that verifies.
ValidBearer(h) ==
  \E t \in {"admin-jwt", "user-jwt", "refresh-jwt"} : h = <<"Bearer", " ", t>>

\* C21: access control of the worker.  A request to a path other than
\* /auth/login and /auth/register is answered 401 by authMiddleware unless it
\* carries a valid 'Bearer <token>' header, and only then reaches a handler;
\* a path starting with /admin reaches the admin handler only for a token
\* whose role is 'admin' and is answered 403 for any other verified token;
\* requireRole(r1..rn) returns null exactly when the role is one of r1..rn
\* and a 403 response otherwise.
C21_AccessControl ==
  /\ req.op = "fetch" =>
       LET public == req.path \in { <<"/auth", "/login">>,
                                    <<"/auth", "/register">> }
           r == req.response
       IN  /\ public <=> r.by = "handlePublicRoute"
           /\ (~public /\ ~ValidBearer(req.header)) =>
                (r.status = 401 /\ r.by = "authMiddleware")
           /\ r.by \in {"handleProtectedRoute", "handleAdminRoute"} =>
                (~public /\ ValidBearer(req.header))
           /\ r.by = "handleAdminRoute" =>
                (req.header = <<"Bearer", " ", "admin-jwt">>
                   /\ r.role = "admin")
           /\ (~public /\ ValidBearer(req.header)
                 /\ req.path[1] = "/admin") =>
                IF req.header = <<"Bearer", " ", "admin-jwt">>
                THEN r.by = "handleAdminRoute"
                ELSE r.status = 403 /\ r.by = "requireRole"
  /\ req.op = "requireRole" =>
       /\ req.response.status = 0 <=> req.role \in req.allowedRoles
       /\ req.response.status # 0 =>
            (req.response.status = 403 /\ req.response.by = "requireRole")

C21_Witness ==
  /\ req.op = "fetch"
  /\ req.path = <<"/admin", "/users">>
  /\ req.header = <<"Bearer", " ", "user-jwt">>
  /\ req.response.status = 403

\* C22: sessions are revocable.  getSession(id) returns the user stored by
\* createSession for that id at any time before revokeSession(id) and before
\* the 24 h expiry; once revokeSession(id) was called it returns null; and
\* creating or revoking one session leaves what getSession returns for every
\* other id as it was.
C22_SessionsRevocable ==
  /\ [](sess.last.op = "getSession" =>
          /\ sess.last.id \in sess.revoked => sess.last.result = Null
          /\ \A c \in sess.created :
               (c.id = sess.last.id /\ c.id \notin sess.revoked
                  /\ sess.now < c.at + 24) => sess.last.result = c.user)
  /\ [][(sess'.last # sess.last
           /\ sess'.last.op \in {"createSession", "revokeSession"}) =>
          \A id \in SessionIds \ {sess'.last.id} :
            GetSessionResult(sess', id) = GetSessionResult(sess, id)]_vars

C22_Witness ==
  /\ sess.last = [op |-> "getSession", id |-> "sid-2", result |-> Null]
  /\ "sid-2" \in sess.revoked
  /\ \E c \in sess.created : c.id = "sid-2" /\ sess.now < c.at + 24
  /\ GetSessionResult(sess, "sid-1") = Obj(1)

C24_CacheAside ==
  /\ [](\A i \in EdgeSlots :
          LET r == edge.reqs[i]
          IN  /\ r.pc \in {"query", "put"} => r.cached = << >>
              /\ (r.pc = "done" /\ r.status = 200) =>
                   (r.xcache = "HIT" <=> r.cached # << >>)
              /\ (r.pc = "done" /\ r.status = 200 /\ r.cached = << >>) =>
                   r.xcache = "MISS")
  /\ [][\A i \in EdgeSlots :
          LET r == edge.reqs[i]
              q == edge'.reqs[i]
          IN  /\ (q # r /\ q.pc = "done" /\ q.xcache = "HIT") =>
                   /\ edge.stored[q.path] # << >>
                   /\ q.body = edge.stored[q.path]
              /\ (r.pc = "query" /\ q # r) =>
                   (q.pc = "put" /\ q.data = edge.db)
              /\ (r.pc = "put" /\ q # r) =>
                   /\ q.pc = "done"
                   /\ q.xcache = "MISS"
                   /\ q.body = Stringify(Obj(r.data))
                   /\ edge'.store[<<"cache:", r.path>>] =
                        [present |-> TRUE, item |-> q.body,
                         expires |-> edge.now + r.ttl]]_vars

C24_Witness ==
  /\ edge.reqs[1].pc = "done"
  /\ edge.reqs[1].xcache = "MISS"
  /\ edge.reqs[1].path = "/posts"
  /\ edge.reqs[2].pc = "done"
  /\ edge.reqs[2].xcache = "HIT"
  /\ edge.reqs[2].path = "/posts"
  /\ edge.reqs[2].body = edge.reqs[1].body
  /\ edge.now = 1

\* C25: every ripple is removed.  Once its delay has run out a ripple loses
\* 0.012 opacity per advance from 0.8 and is dropped by its 67th advance at
\* the latest (earlier when its radius reaches maxRadius), so the number of
\* live ripples stays below a constant even with a new impact on every frame.
C25_RipplesAreRemoved ==
  valor # NoCall =>
    /\ Len(valor.ripples) <= 69
    /\ \A i \in 1..Len(valor.ripples) :
         LET p == valor.ripples[i]
         IN  /\ p.delay > 0 => p.adv = 0
             /\ p.opacity = 800 - 12 * p.adv
             /\ p.adv <= 66
             /\ p.opacity > 0
             /\ p.radius < p.maxRadius

C25_Witness ==
  /\ valor # NoCall
  /\ valor.every = 1
  /\ ~valor.mix
  /\ valor.frame > 127
  /\ Len(valor.ripples) = 66
  /\ valor.ripples[1].adv = 66

\* C26: the mock KV namespace behaves like a map.  get(k) returns the string
\* most recently put for k, whatever string it is (the empty string too),
\* and null when k was never put or was deleted since; list({prefix, limit})
\* returns keys currently stored that start with the prefix, each once: all
\* of them, or limit of them when there are more.
C26_MockKVIsAMap ==
  /\ (kv.last.op = "get" /\ kv.last.type = "undefined") =>
       IF \E e \in kv.puts : e.key = kv.last.key
       THEN \E e \in kv.puts :
              e.key = kv.last.key /\ kv.last.result = Str(e.value)
       ELSE kv.last.result = Null
  /\ (kv.last.op = "list" /\ kv.last.limit > 0) =>
       LET stored == { e.key : e \in kv.puts }
           starts == { k \in stored :
                         /\ Len(k) >= Len(kv.last.key)
                         /\ SubSeq(k, 1, Len(kv.last.key)) = kv.last.key }
           names == { kv.last.keys[j] : j \in 1..Len(kv.last.keys) }
       IN  /\ names \subseteq starts
           /\ Cardinality(names) = Len(kv.last.keys)
           /\ Len(kv.last.keys) = IF Cardinality(starts) < kv.last.limit
                                  THEN Cardinality(starts)
                                  ELSE kv.last.limit

====
